---------------------------- MODULE Spec2Model ----------------------------
(***************************************************************************)
(* Session booking and rating workflow of the folk-art platform:           *)
(* the sessions router (book, update status, rate, get, list) over the     *)
(* Session and Artist collections, the artist profile and product view     *)
(* handlers, the browser's AuthManager and apiHelpers.retry.  Every        *)
(* `await` of a handler is one step, so two requests interleave exactly    *)
(* where the handlers can be suspended.                                    *)
(*                                                                         *)
(* Times are minutes of one day (600 = 10:00); the code works in           *)
(* milliseconds, duration * 60000, which is the same order on a coarser    *)
(* unit.  ratings.average is kept in tenths (45 = 4.5): the code rounds    *)
(* to one decimal, so tenths are exact.                                    *)
(***************************************************************************)
EXTENDS Integers, Sequences, FiniteSets, TLC

\* ------------------------------------------------------------------ bounds
MaxSessions == 3
MaxRequests == 2

\* ------------------------------------------------------------------ inputs
Reqs == {1, 2}

Users == {"cust", "art1", "art2", "art3", "adm"}
Callers == {"cust", "art1", "adm"}
ArtistIds == {"A1", "A2"}
UnknownArtist == "A0"

\* Requested windows <<scheduledDate, duration>>: 10:00 for 60 minutes, 10:30
\* for 60 minutes, 11:00 for 30 minutes.
Windows == {<<600, 60>>, <<630, 60>>, <<660, 30>>}
ScoreInputs == {0, 1, 5, 6}

validStatuses == {"pending", "confirmed", "completed", "cancelled", "rescheduled"}
StatusInputs == validStatuses \cup {"archived"}

NoRating == 0

\* A request body: the fields some handler reads ("none", 0 and NoRating: the
\* field is absent).
NoBody == [id |-> 0, artistId |-> "none", scheduledDate |-> 0, duration |-> 0,
           status |-> "none", paymentStatus |-> "none", score |-> NoRating]

\* What a booking body carries besides the fields the handler reads: every
\* booking of the model also sends a status, a paymentStatus and a rating.
BodyExtras == {[NoBody EXCEPT !.status = "completed", !.paymentStatus = "paid",
                              !.score = 5]}

\* The products the store holds, and an id it does not hold.
ProductIds == {"P1", "P2"}
UnknownProduct == "P0"

\* The server: its collections, the requests its handlers are working on and
\* the number of requests received.
VARIABLES users, artists, sessions, products, reqs, nreq

\* The browser page: the AuthManager object, the authToken item of
\* localStorage, its async methods in flight and the number of user events.
VARIABLES authManager, authToken, tasks, nevents

\* A call of apiHelpers.retry.
VARIABLE retrier

page == <<authManager, authToken, tasks, nevents>>

client == <<page, retrier>>

server == <<users, artists, sessions, products, reqs, nreq>>

vars == <<server, client>>

\* null and an absent localStorage item.
Null == "none"

\* A page without a stored token, nothing in flight.
\* validateToken keeps the token its request carries.
NoTasks == [validateToken |-> [pc |-> "none", token |-> Null],
            handleLogin |-> "none", handleRegister |-> "none"]

PageIdle ==
    /\ authManager = [currentUser |-> Null, token |-> Null]
    /\ authToken = Null
    /\ tasks = NoTasks
    /\ nevents = 0

\* No call of retry.
NoRetry == [pc |-> "none", args |-> [retries |-> 0, delay |-> 0], i |-> 0,
            delay |-> 0, log |-> <<>>, outcome |-> <<"none">>]

ClientIdle == PageIdle /\ retrier = NoRetry

\* productSchema.views: { type: Number, default: 0 }
NoViews == [p \in ProductIds |-> [views |-> 0]]

\* --------------------------------------------------------------- responses
NoRes == [status |-> 0, message |-> "none"]
Res(code, msg) == [status |-> code, message |-> msg]

NoLocal == [status |-> "none", average |-> 0, count |-> 0,
            newAverage |-> 0, newCount |-> 0, artist |-> "none", found |-> {},
            views |-> 0]

IdleReq == [op |-> "none", pc |-> "idle", caller |-> "none", body |-> NoBody,
            local |-> NoLocal, res |-> NoRes]

Idle(r) == reqs[r].pc = "idle"
\* The ids a request may name: those of the stored sessions and one more.
SessionIds == 1..(Len(sessions) + 1)
Responded(r) == reqs[r].pc = "responded"
InFlight == {r \in Reqs : ~Idle(r)}
Quiescent == InFlight = {}

\* A response is sent in the synchronous block that ends its handler, so
\* nothing else runs between a handler's last step and its Finish.
NoneResponded == \A r \in Reqs : ~Responded(r)

\* The handler of `op` in slot r is at the await `label` and may resume.
At(r, op, label) == NoneResponded /\ reqs[r].op = op /\ reqs[r].pc = label

\* Slot r may take a new request: it is the first free slot.
Admit(r) ==
    /\ Idle(r) /\ \A q \in Reqs : q < r => ~Idle(q)
    /\ NoneResponded
    /\ nreq < MaxRequests

\* The handler of r sends its response: res.status(code).json({message, ...}).
Respond(r, code, msg) ==
    reqs' = [reqs EXCEPT ![r].pc = "responded",
                         ![r].local = NoLocal, ![r].res = Res(code, msg)]

Goto(r, label) == reqs' = [reqs EXCEPT ![r].pc = label]

\* A new request enters the handler slot r (protect has set req.user).
Receive(r, op, caller, body, label) ==
    /\ Admit(r)
    /\ nreq' = nreq + 1
    /\ reqs' = [reqs EXCEPT ![r] = [op |-> op, pc |-> label, caller |-> caller,
                                    body |-> body, local |-> NoLocal, res |-> NoRes]]

\* -------------------------------------------------------------------- Init
\* A session as an earlier booking by cust left it, completed since, and
\* rated with `score` or not.
Completed(a, w, score) ==
    [user |-> "cust", artist |-> a, scheduledDate |-> w[1], duration |-> w[2],
     status |-> "completed", paymentStatus |-> "pending", rating |-> score]

Unrated == [a \in ArtistIds |-> <<0, 0>>]

\* Stores earlier bookings, completions and ratings have left, each with the
\* aggregate <<average in tenths, count>> those ratings produced.
EmptyStore == [sessions |-> <<>>, ratings |-> Unrated]

TwoCompleted ==
    [sessions |-> <<Completed("A1", <<600, 60>>, NoRating),
                    Completed("A1", <<660, 30>>, NoRating)>>,
     ratings |-> Unrated]

OneRated ==
    [sessions |-> <<Completed("A1", <<600, 60>>, 4),
                    Completed("A2", <<600, 60>>, NoRating),
                    Completed("A1", <<660, 30>>, NoRating)>>,
     ratings |-> [Unrated EXCEPT !["A1"] = <<40, 1>>]]

TwoRated ==
    [sessions |-> <<Completed("A1", <<600, 60>>, 4),
                    Completed("A1", <<630, 60>>, 5),
                    Completed("A1", <<660, 30>>, NoRating)>>,
     ratings |-> [Unrated EXCEPT !["A1"] = <<45, 2>>]]

\* The stores a run of concurrent requests starts from.
SeedStores == {EmptyStore, TwoCompleted}

\* The stores a run of one-at-a-time requests starts from.
SeqSeedStores == {EmptyStore, TwoCompleted, OneRated, TwoRated}

ServerInit(seeds) ==
    /\ users = [u \in Users |->
                  [role |-> CASE u = "cust" -> "user"
                              [] u = "adm" -> "admin"
                              [] OTHER -> "artist"]]
    /\ \E seed \in seeds :
          /\ sessions = seed.sessions
          /\ artists = [a \in ArtistIds |->
                          [user |-> IF a = "A1" THEN "art1" ELSE "art2",
                           average |-> seed.ratings[a][1],
                           count |-> seed.ratings[a][2]]]
    /\ products = NoViews
    /\ reqs = [r \in Reqs |-> IdleReq]
    /\ nreq = 0

InitFrom(seeds) == ServerInit(seeds) /\ ClientIdle

Init == InitFrom(SeedStores)

SeqInit == InitFrom(SeqSeedStores)


\* ------------------------------------------------------------- bookSession
\* An availability query whose window includes its end ($lte for $lt).
existingSessionInclusive(artistId, scheduledDate, duration) ==
    {i \in 1..Len(sessions) :
        /\ sessions[i].artist = artistId
        /\ sessions[i].scheduledDate >= scheduledDate
        /\ sessions[i].scheduledDate <= scheduledDate + duration
        /\ sessions[i].status \in {"pending", "confirmed"}}

\* An availability query without the status filter.
existingSessionAnyStatus(artistId, scheduledDate, duration) ==
    {i \in 1..Len(sessions) :
        /\ sessions[i].artist = artistId
        /\ sessions[i].scheduledDate >= scheduledDate
        /\ sessions[i].scheduledDate < scheduledDate + duration}

\* Session.findOne({artist, scheduledDate: {$gte, $lt}, status: {$in: ...}}):
\* the ids of the stored sessions the availability query matches.
existingSession(artistId, scheduledDate, duration) ==
    {i \in 1..Len(sessions) :
        /\ sessions[i].artist = artistId
        /\ sessions[i].scheduledDate >= scheduledDate
        /\ sessions[i].scheduledDate < scheduledDate + duration
        /\ sessions[i].status \in {"pending", "confirmed"}}

\* A handler that passes the whole body on (Session.create({...req.body})).
bookFieldsSpread(body) == body

\* const { artistId, sessionType, ..., scheduledDate, duration, ... } = req.body:
\* the handler keeps the fields it names; anything else in the body is dropped.
bookFields(body) ==
    [NoBody EXCEPT !.artistId = body.artistId,
                   !.scheduledDate = body.scheduledDate,
                   !.duration = body.duration]

\* Session.create({user: req.user.id, artist: artistId, ...}): a field that is
\* not passed takes its schema default (status and paymentStatus 'pending',
\* no rating).
NewSession(caller, fields) ==
    [user |-> caller, artist |-> fields.artistId,
     scheduledDate |-> fields.scheduledDate, duration |-> fields.duration,
     status |-> IF fields.status = "none" THEN "pending" ELSE fields.status,
     paymentStatus |-> IF fields.paymentStatus = "none" THEN "pending"
                       ELSE fields.paymentStatus,
     rating |-> fields.score]

BooksInFlight == {r \in Reqs : reqs[r].op = "book" /\ ~Idle(r) /\ ~Responded(r)}

\* POST /api/sessions arrives.
StartBook(r, caller, artistId, scheduledDate, duration, extra) ==
    /\ Admit(r)
    /\ Len(sessions) + Cardinality(BooksInFlight) < MaxSessions
    /\ Receive(r, "book", caller,
               [extra EXCEPT !.artistId = artistId, !.scheduledDate = scheduledDate,
                             !.duration = duration],
               "findArtist")
    /\ UNCHANGED <<products, client, users, artists, sessions>>

\* A booking that does not look the artist up.
BookFindArtistUnchecked(r) ==
    /\ At(r, "book", "findArtist")
    /\ Goto(r, "findExisting")
    /\ UNCHANGED <<products, client, users, artists, sessions, nreq>>

\* const artist = await Artist.findById(artistId)
BookFindArtist(r) ==
    /\ At(r, "book", "findArtist")
    /\ IF reqs[r].body.artistId \notin DOMAIN artists
         THEN Respond(r, 404, "Artist not found")
         ELSE Goto(r, "findExisting")
    /\ UNCHANGED <<products, client, users, artists, sessions, nreq>>

\* const existingSession = await Session.findOne({...})
BookFindExisting(r) ==
    /\ At(r, "book", "findExisting")
    /\ IF existingSession(reqs[r].body.artistId, reqs[r].body.scheduledDate,
                          reqs[r].body.duration) # {}
         THEN Respond(r, 400, "Artist is not available at the requested time")
         ELSE Goto(r, "create")
    /\ UNCHANGED <<products, client, users, artists, sessions, nreq>>

\* A create that checks the window again in the same store operation.
BookCreateIfFree(r) ==
    /\ At(r, "book", "create")
    /\ IF existingSession(reqs[r].body.artistId, reqs[r].body.scheduledDate,
                          reqs[r].body.duration) # {}
         THEN /\ Respond(r, 400, "Artist is not available at the requested time")
              /\ UNCHANGED sessions
         ELSE /\ sessions' = Append(sessions,
                                    NewSession(reqs[r].caller, bookFields(reqs[r].body)))
              /\ Respond(r, 201, "Session booked successfully")
    /\ UNCHANGED <<products, client, users, artists, nreq>>

\* await Session.create({...}); the populated re-read only shapes the response.
BookCreate(r) ==
    /\ At(r, "book", "create")
    /\ sessions' = Append(sessions, NewSession(reqs[r].caller, bookFields(reqs[r].body)))
    /\ Respond(r, 201, "Session booked successfully")
    /\ UNCHANGED <<products, client, users, artists, nreq>>

\* ----------------------------------------------------- updateSessionStatus
\* PUT /api/sessions/:id/status arrives: the handler validates the status
\* before its first await.
StartStatus(r, caller, id, status) ==
    /\ Admit(r)
    /\ status \in validStatuses
    /\ Receive(r, "status", caller, [NoBody EXCEPT !.id = id, !.status = status],
               "findSession")
    /\ UNCHANGED <<products, client, users, artists, sessions>>

StartStatusInvalid(r, caller, id, status) ==
    /\ Admit(r)
    /\ nreq' = nreq + 1
    /\ status \notin validStatuses
    /\ reqs' = [reqs EXCEPT ![r] = [IdleReq EXCEPT
                   !.op = "status", !.pc = "responded", !.caller = caller,
                   !.body = [NoBody EXCEPT !.id = id, !.status = status],
                   !.res = Res(400, "Invalid status")]]
    /\ UNCHANGED <<products, client, users, artists, sessions>>

\* const session = await Session.findById(req.params.id)
StatusFindSession(r) ==
    /\ At(r, "status", "findSession")
    /\ IF reqs[r].body.id \notin 1..Len(sessions)
         THEN Respond(r, 404, "Session not found")
         ELSE reqs' = [reqs EXCEPT ![r].pc = "findArtist",
                                   ![r].local.status = sessions[reqs[r].body.id].status]
    /\ UNCHANGED <<products, client, users, artists, sessions, nreq>>

\* Artist.findOne({ user: req.user.id }): the profiles owned by the caller.
findOneByUser(caller) == {a \in DOMAIN artists : artists[a].user = caller}

isOwner(session, caller) == session.user = caller
isArtist(session, caller) == session.artist \in findOneByUser(caller)
isAdmin(caller) == users[caller].role = "admin"

\* An authorization check that lets every identity with an artist profile
\* through, whichever artist the session belongs to.
StatusAuthorizeAnyArtist(r) ==
    /\ At(r, "status", "findArtist")
    /\ LET session == sessions[reqs[r].body.id]
           caller == reqs[r].caller
       IN IF ~isOwner(session, caller) /\ findOneByUser(caller) = {} /\ ~isAdmin(caller)
            THEN Respond(r, 403, "Not authorized to update this session")
            ELSE Goto(r, "save")
    /\ UNCHANGED <<products, client, users, artists, sessions, nreq>>

\* const artist = await Artist.findOne(...); the authorization check
StatusAuthorize(r) ==
    /\ At(r, "status", "findArtist")
    /\ LET session == sessions[reqs[r].body.id]
           caller == reqs[r].caller
       IN IF ~isOwner(session, caller) /\ ~isArtist(session, caller) /\ ~isAdmin(caller)
            THEN Respond(r, 403, "Not authorized to update this session")
            ELSE Goto(r, "save")
    /\ UNCHANGED <<products, client, users, artists, sessions, nreq>>

\* A save behind a transition table: completed and cancelled are final.
StatusSaveFinalStates(r) ==
    /\ At(r, "status", "save")
    /\ IF reqs[r].local.status \in {"completed", "cancelled"}
         THEN /\ UNCHANGED sessions
              /\ Respond(r, 400, "Invalid status transition")
         ELSE /\ sessions' = [sessions EXCEPT
                                 ![reqs[r].body.id].status = reqs[r].body.status]
              /\ Respond(r, 200, "Session status updated successfully")
    /\ UNCHANGED <<products, client, users, artists, nreq>>

\* A save that also refunds a cancelled session's payment.
StatusSaveRefunding(r) ==
    /\ At(r, "status", "save")
    /\ sessions' = [sessions EXCEPT
                       ![reqs[r].body.id].status = reqs[r].body.status,
                       ![reqs[r].body.id].paymentStatus =
                           IF reqs[r].body.status = "cancelled" THEN "refunded" ELSE @]
    /\ Respond(r, 200, "Session status updated successfully")
    /\ UNCHANGED <<products, client, users, artists, nreq>>

\* A save that deletes the session when it is cancelled.
StatusSaveDeletingCancelled(r) ==
    /\ At(r, "status", "save")
    /\ sessions' = IF reqs[r].body.status = "cancelled"
                     THEN SubSeq(sessions, 1, reqs[r].body.id - 1)
                          \o SubSeq(sessions, reqs[r].body.id + 1, Len(sessions))
                     ELSE [sessions EXCEPT ![reqs[r].body.id].status = reqs[r].body.status]
    /\ Respond(r, 200, "Session status updated successfully")
    /\ UNCHANGED <<products, client, users, artists, nreq>>

\* session.status = status; await session.save(): the document writes the
\* paths that differ from the values it was loaded with.
StatusSave(r) ==
    /\ At(r, "status", "save")
    /\ sessions' = IF reqs[r].body.status # reqs[r].local.status
                     THEN [sessions EXCEPT ![reqs[r].body.id].status = reqs[r].body.status]
                     ELSE sessions
    /\ Respond(r, 200, "Session status updated successfully")
    /\ UNCHANGED <<products, client, users, artists, nreq>>

\* ------------------------------------------------------------- rateSession
\* A guard that lets a score of 0 through.
scoreRejectedBelowZero(score) == score < 0 \/ score > 5

\* if (score < 1 || score > 5)
scoreRejected(score) == score < 1 \/ score > 5

\* PUT /api/sessions/:id/rate arrives: the score is checked before the first
\* await.
StartRate(r, caller, id, score) ==
    /\ Admit(r)
    /\ ~scoreRejected(score)
    /\ Receive(r, "rate", caller, [NoBody EXCEPT !.id = id, !.score = score],
               "findSession")
    /\ UNCHANGED <<products, client, users, artists, sessions>>

StartRateInvalid(r, caller, id, score) ==
    /\ Admit(r)
    /\ nreq' = nreq + 1
    /\ scoreRejected(score)
    /\ reqs' = [reqs EXCEPT ![r] = [IdleReq EXCEPT
                   !.op = "rate", !.pc = "responded", !.caller = caller,
                   !.body = [NoBody EXCEPT !.id = id, !.score = score],
                   !.res = Res(400, "Rating must be between 1 and 5")]]
    /\ UNCHANGED <<products, client, users, artists, sessions>>

\* A rate handler without the status guard.
RateFindSessionAnyStatus(r) ==
    /\ At(r, "rate", "findSession")
    /\ IF reqs[r].body.id \notin 1..Len(sessions)
         THEN Respond(r, 404, "Session not found")
         ELSE IF sessions[reqs[r].body.id].user # reqs[r].caller
                THEN Respond(r, 403, "Not authorized to rate this session")
                ELSE Goto(r, "saveSession")
    /\ UNCHANGED <<products, client, users, artists, sessions, nreq>>

\* A rate handler that lets an admin through the ownership guard.
RateFindSessionAdminToo(r) ==
    /\ At(r, "rate", "findSession")
    /\ IF reqs[r].body.id \notin 1..Len(sessions)
         THEN Respond(r, 404, "Session not found")
         ELSE LET session == sessions[reqs[r].body.id]
              IN IF session.user # reqs[r].caller /\ users[reqs[r].caller].role # "admin"
                   THEN Respond(r, 403, "Not authorized to rate this session")
                   ELSE IF session.status # "completed"
                          THEN Respond(r, 400, "Session must be completed before rating")
                          ELSE Goto(r, "saveSession")
    /\ UNCHANGED <<products, client, users, artists, sessions, nreq>>

\* const session = await Session.findById(req.params.id) and the guards up
\* to session.rating = {score, review, ratedAt}
RateFindSession(r) ==
    /\ At(r, "rate", "findSession")
    /\ IF reqs[r].body.id \notin 1..Len(sessions)
         THEN Respond(r, 404, "Session not found")
         ELSE LET session == sessions[reqs[r].body.id]
              IN IF session.user # reqs[r].caller
                   THEN Respond(r, 403, "Not authorized to rate this session")
                   ELSE IF session.status # "completed"
                          THEN Respond(r, 400, "Session must be completed before rating")
                          ELSE Goto(r, "saveSession")
    /\ UNCHANGED <<products, client, users, artists, sessions, nreq>>

\* await session.save(): writes the rating paths (ratedAt is always new).
RateSaveSession(r) ==
    /\ At(r, "rate", "saveSession")
    /\ sessions' = [sessions EXCEPT ![reqs[r].body.id].rating = reqs[r].body.score]
    /\ Goto(r, "findArtist")
    /\ UNCHANGED <<products, client, users, artists, nreq>>

\* const artist = await Artist.findById(session.artist)
RateFindArtist(r) ==
    /\ At(r, "rate", "findArtist")
    /\ LET artist == artists[sessions[reqs[r].body.id].artist]
       IN reqs' = [reqs EXCEPT ![r].pc = "findSessions",
                               ![r].local.average = artist.average,
                               ![r].local.count = artist.count]
    /\ UNCHANGED <<products, client, users, artists, sessions, nreq>>

\* Session.find({artist, 'rating.score': {$exists: true}})
findRated(artistId) ==
    {i \in 1..Len(sessions) :
        sessions[i].artist = artistId /\ sessions[i].rating # NoRating}

RECURSIVE reduceSum(_)
\* sessions.reduce((sum, s) => sum + s.rating.score, 0)
reduceSum(ids) ==
    IF ids = {} THEN 0
    ELSE LET i == CHOOSE x \in ids : TRUE
         IN sessions[i].rating + reduceSum(ids \ {i})

totalRatings(found) == Cardinality(found)

\* An average cut to one decimal instead of rounded (Math.floor for Math.round).
truncatedAverage(found) == (10 * reduceSum(found)) \div totalRatings(found)

\* Math.round(averageRating * 10) / 10, in tenths: Math.round rounds a half up.
roundedAverage(found) ==
    (20 * reduceSum(found) + totalRatings(found)) \div (2 * totalRatings(found))

\* A running aggregate: every call adds its score to the stored average as one
\* more rating, whether or not the session was rated before.
RateFindSessionsRunning(r) ==
    /\ At(r, "rate", "findSessions")
    /\ LET n == reqs[r].local.count
           avg == reqs[r].local.average
       IN reqs' = [reqs EXCEPT ![r].pc = "saveArtist",
                               ![r].local.newAverage =
                                   (2 * (avg * n + 10 * reqs[r].body.score) + (n + 1))
                                       \div (2 * (n + 1)),
                               ![r].local.newCount = n + 1]
    /\ UNCHANGED <<products, client, users, artists, sessions, nreq>>

\* const sessions = await Session.find(...); the aggregate is computed and
\* set on the loaded artist document.
RateFindSessions(r) ==
    /\ At(r, "rate", "findSessions")
    /\ LET found == findRated(sessions[reqs[r].body.id].artist)
       IN reqs' = [reqs EXCEPT ![r].pc = "saveArtist",
                               ![r].local.newAverage = roundedAverage(found),
                               ![r].local.newCount = totalRatings(found)]
    /\ UNCHANGED <<products, client, users, artists, sessions, nreq>>

\* await artist.save(): the document writes the paths that differ from the
\* values it was loaded with.
RateSaveArtist(r) ==
    /\ At(r, "rate", "saveArtist")
    /\ LET a == sessions[reqs[r].body.id].artist
           l == reqs[r].local
       IN artists' = [artists EXCEPT
             ![a].average = IF l.newAverage # l.average THEN l.newAverage ELSE @,
             ![a].count = IF l.newCount # l.count THEN l.newCount ELSE @]
    /\ Respond(r, 200, "Session rated successfully")
    /\ UNCHANGED <<products, client, users, sessions, nreq>>

\* The response has gone out: the handler slot is free again.
Finish(r) ==
    /\ Responded(r)
    /\ reqs' = [reqs EXCEPT ![r] = IdleReq]
    /\ UNCHANGED <<products, client, users, artists, sessions, nreq>>

\* -------------------------------------------------------------------- Next
Step(r) ==
    \/ BookFindArtist(r)
    \/ BookFindExisting(r)
    \/ BookCreate(r)
    \/ StatusFindSession(r)
    \/ StatusAuthorize(r)
    \/ StatusSave(r)
    \/ RateFindSession(r)
    \/ RateSaveSession(r)
    \/ RateFindArtist(r)
    \/ RateFindSessions(r)
    \/ RateSaveArtist(r)

\* The callers a request may arrive from: any, while the slot r admits one.
CallersAt(r) == IF Admit(r) THEN Callers ELSE {}

\* A request arrives, from any caller and with any body.
Arrive(r) ==
    \/ \E c \in CallersAt(r), a \in ArtistIds \cup {UnknownArtist}, w \in Windows,
          x \in BodyExtras : StartBook(r, c, a, w[1], w[2], x)
    \/ \E c \in CallersAt(r), i \in SessionIds, st \in StatusInputs :
          StartStatus(r, c, i, st)
    \/ \E c \in CallersAt(r), i \in SessionIds, st \in StatusInputs :
          StartStatusInvalid(r, c, i, st)
    \/ \E c \in CallersAt(r), i \in SessionIds, sc \in ScoreInputs :
          StartRate(r, c, i, sc)
    \/ \E c \in CallersAt(r), i \in SessionIds, sc \in ScoreInputs :
          StartRateInvalid(r, c, i, sc)

\* Requests are handled concurrently: a request may arrive while another is
\* being handled, and any handler may take its next step.
Next == \E r \in Reqs : Arrive(r) \/ Step(r) \/ Finish(r)

Spec == Init /\ [][Next]_vars

\* One request at a time: a request arrives only when no handler is running.
SeqCallersAt(r) == IF Admit(r) /\ Quiescent THEN Callers ELSE {}

SeqArrive(r) ==
    \/ \E c \in SeqCallersAt(r), a \in ArtistIds \cup {UnknownArtist}, w \in Windows,
          x \in BodyExtras : StartBook(r, c, a, w[1], w[2], x)
    \/ \E c \in SeqCallersAt(r), i \in SessionIds, st \in StatusInputs :
          StartStatus(r, c, i, st)
    \/ \E c \in SeqCallersAt(r), i \in SessionIds, st \in StatusInputs :
          StartStatusInvalid(r, c, i, st)
    \/ \E c \in SeqCallersAt(r), i \in SessionIds, sc \in ScoreInputs :
          StartRate(r, c, i, sc)
    \/ \E c \in SeqCallersAt(r), i \in SessionIds, sc \in ScoreInputs :
          StartRateInvalid(r, c, i, sc)

SeqNext == \E r \in Reqs : SeqArrive(r) \/ Step(r) \/ Finish(r)

SeqSpec == SeqInit /\ [][SeqNext]_vars

\* ------------------------------------------------------ rating, on its own
\* rateSession calls handled one at a time over stores of completed
\* sessions, some rated already: the last one holds three ratings of 4.
ThreeRated ==
    [sessions |-> <<Completed("A1", <<600, 60>>, 4),
                    Completed("A1", <<630, 60>>, 4),
                    Completed("A1", <<660, 30>>, 4),
                    Completed("A1", <<600, 60>>, NoRating)>>,
     ratings |-> [Unrated EXCEPT !["A1"] = <<40, 3>>]]

RateSeedStores == {TwoCompleted, OneRated, ThreeRated}

RateScores == {1, 4, 5}

RateInit == InitFrom(RateSeedStores)

RateArrive(r) ==
    \E c \in SeqCallersAt(r), i \in SessionIds, sc \in RateScores :
        StartRate(r, c, i, sc)

RateStep(r) ==
    \/ RateFindSession(r)
    \/ RateSaveSession(r)
    \/ RateFindArtist(r)
    \/ RateFindSessions(r)
    \/ RateSaveArtist(r)

RateNext == \E r \in Reqs : RateArrive(r) \/ RateStep(r) \/ Finish(r)

RateSpec == RateInit /\ [][RateNext]_vars

\* -------------------------------------------------------------- getSession
\* GET /api/sessions/:id arrives.
StartGet(r, caller, id) ==
    /\ Receive(r, "get", caller, [NoBody EXCEPT !.id = id], "findSession")
    /\ UNCHANGED <<products, client, users, artists, sessions>>

\* const session = await Session.findById(req.params.id).populate(...)
GetFindSession(r) ==
    /\ At(r, "get", "findSession")
    /\ IF reqs[r].body.id \notin 1..Len(sessions)
         THEN Respond(r, 404, "Session not found")
         ELSE Goto(r, "findArtist")
    /\ UNCHANGED <<products, client, users, artists, sessions, nreq>>

\* A handler that returns every session it finds.
GetAuthorizeAnyone(r) ==
    /\ At(r, "get", "findArtist")
    /\ Respond(r, 200, "none")
    /\ UNCHANGED <<products, client, users, artists, sessions, nreq>>

\* const artist = await Artist.findOne({ user: req.user.id }): one of the
\* caller's profiles, or null; then the authorization check and the 200,
\* whose body has no message.
GetAuthorize(r) ==
    /\ At(r, "get", "findArtist")
    /\ LET session == sessions[reqs[r].body.id]
           caller == reqs[r].caller
           found == IF findOneByUser(caller) = {} THEN {"none"}
                    ELSE findOneByUser(caller)
       IN \E artist \in found :
             IF ~isOwner(session, caller) /\ session.artist # artist /\ ~isAdmin(caller)
               THEN Respond(r, 403, "Not authorized to view this session")
               ELSE Respond(r, 200, "none")
    /\ UNCHANGED <<products, client, users, artists, sessions, nreq>>

GetStep(r) == GetFindSession(r) \/ GetAuthorize(r)

GetArrive(r) == \E c \in CallersAt(r), i \in SessionIds : StartGet(r, c, i)

\* The session workflow with sessions being read while it runs.
ViewNext ==
    \E r \in Reqs : Arrive(r) \/ GetArrive(r) \/ Step(r) \/ GetStep(r) \/ Finish(r)

ViewSpec == Init /\ [][ViewNext]_vars

\* ------------------------------------------------------------ listSessions
\* The query string of GET /api/sessions: the status filter ("none": absent);
\* role is req.user.role as protect set it.
ListBody(role, status) == [role |-> role, status |-> status]

StatusFilters == {"none", "completed"}

\* art3 registered with role artist and has created no profile yet.
ListCallers(r) == IF Admit(r) THEN Callers \cup {"art3"} ELSE {}

\* GET /api/sessions arrives: a caller whose role is not artist gets
\* query.user = req.user.id before the first await.
StartList(r, caller, status) ==
    /\ Receive(r, "list", caller, ListBody(users[caller].role, status),
               IF users[caller].role = "artist" THEN "findArtist" ELSE "find")
    /\ UNCHANGED <<products, client, users, artists, sessions>>

\* const artist = await Artist.findOne({ user: req.user.id });
\* if (artist) query.artist = artist._id
ListFindArtist(r) ==
    /\ At(r, "list", "findArtist")
    /\ LET found == IF findOneByUser(reqs[r].caller) = {} THEN {"none"}
                    ELSE findOneByUser(reqs[r].caller)
       IN \E artist \in found :
             reqs' = [reqs EXCEPT ![r].pc = "find", ![r].local.artist = artist]
    /\ UNCHANGED <<products, client, users, artists, sessions, nreq>>

\* The sessions matching query: artist when the handler set it, user when the
\* caller's role is not artist, status when the request carries one.
listQuery(r) ==
    {i \in 1..Len(sessions) :
        /\ reqs[r].local.artist # "none" => sessions[i].artist = reqs[r].local.artist
        /\ reqs[r].body.role # "artist" => sessions[i].user = reqs[r].caller
        /\ reqs[r].body.status # "none" => sessions[i].status = reqs[r].body.status}

\* const sessions = await Session.find(query)...
ListFind(r) ==
    /\ At(r, "list", "find")
    /\ reqs' = [reqs EXCEPT ![r].pc = "count", ![r].local.found = listQuery(r)]
    /\ UNCHANGED <<products, client, users, artists, sessions, nreq>>

\* const total = await Session.countDocuments(query) and the 200, whose body
\* has no message and carries the sessions found as data.
ListCount(r) ==
    /\ At(r, "list", "count")
    /\ reqs' = [reqs EXCEPT ![r].pc = "responded", ![r].local = NoLocal,
                            ![r].res = [status |-> 200, message |-> "none",
                                        data |-> reqs[r].local.found]]
    /\ UNCHANGED <<products, client, users, artists, sessions, nreq>>

ListStep(r) == ListFindArtist(r) \/ ListFind(r) \/ ListCount(r)

ListArrive(r) == \E c \in ListCallers(r), st \in StatusFilters : StartList(r, c, st)

\* The session workflow with sessions being listed while it runs.
ListNext ==
    \E r \in Reqs : Arrive(r) \/ ListArrive(r) \/ Step(r) \/ ListStep(r) \/ Finish(r)

ListSpec == Init /\ [][ListNext]_vars

\* --------------------------------------------------------- artist profiles
\* The body of a create or update artist request: the fields of it that
\* reach the stored profile's owner and ratings ("none" and NoAggregate: the
\* body does not carry the field).  role is req.user.role as protect set it.
NoAggregate == -1

ProfileBody(id, role, user, average, count) ==
    [id |-> id, role |-> role, user |-> user, average |-> average, count |-> count]

\* Bodies sent: a plain one, one carrying ratings {average: 5, count: 100},
\* and one carrying a user field that names an identity with a profile.
ProfileExtras ==
    {<<"none", NoAggregate, NoAggregate>>, <<"none", 50, 100>>,
     <<"art1", NoAggregate, NoAggregate>>}

\* The _id the store gives the next profile created.
NewArtistIds == <<"A3", "A4", "A5", "A6">>
NextArtistId ==
    NewArtistIds[CHOOSE n \in 1..Len(NewArtistIds) :
                    /\ NewArtistIds[n] \notin DOMAIN artists
                    /\ \A m \in 1..(n - 1) : NewArtistIds[m] \in DOMAIN artists]

\* { user: req.user.id, ...req.body } and the schema defaults of ratings: a
\* field the body carries replaces the one before the spread.
createFields(caller, body) ==
    [user |-> IF body.user # "none" THEN body.user ELSE caller,
     average |-> IF body.average # NoAggregate THEN body.average ELSE 0,
     count |-> IF body.count # NoAggregate THEN body.count ELSE 0]

\* findByIdAndUpdate(id, req.body): the fields the body carries are set.
updateFields(artist, body) ==
    [user |-> IF body.user # "none" THEN body.user ELSE artist.user,
     average |-> IF body.average # NoAggregate THEN body.average ELSE artist.average,
     count |-> IF body.count # NoAggregate THEN body.count ELSE artist.count]

\* POST /api/artists arrives.
StartCreateArtist(r, caller, extra) ==
    /\ Receive(r, "createArtist", caller,
               ProfileBody("none", users[caller].role, extra[1], extra[2], extra[3]),
               "findExisting")
    /\ UNCHANGED <<products, client, users, artists, sessions>>

\* const existingArtist = await Artist.findOne({ user: req.user.id })
CreateFindExisting(r) ==
    /\ At(r, "createArtist", "findExisting")
    /\ IF findOneByUser(reqs[r].caller) # {}
         THEN Respond(r, 400, "Artist profile already exists")
         ELSE Goto(r, "updateRole")
    /\ UNCHANGED <<products, client, users, artists, sessions, nreq>>

\* await User.findByIdAndUpdate(req.user.id, { role: 'artist' })
CreateUpdateRole(r) ==
    /\ At(r, "createArtist", "updateRole")
    /\ users' = [users EXCEPT ![reqs[r].caller].role = "artist"]
    /\ Goto(r, "create")
    /\ UNCHANGED <<products, client, artists, sessions, nreq>>

\* const artist = await Artist.create({ user: req.user.id, ...req.body });
\* the populated re-read only shapes the response.
CreateArtist(r) ==
    /\ At(r, "createArtist", "create")
    /\ artists' = [a \in DOMAIN artists \cup {NextArtistId} |->
                     IF a \in DOMAIN artists THEN artists[a]
                     ELSE createFields(reqs[r].caller, reqs[r].body)]
    /\ Respond(r, 201, "Artist profile created successfully")
    /\ UNCHANGED <<products, client, users, sessions, nreq>>

\* PUT /api/artists/:id arrives.
StartUpdateArtist(r, caller, id, extra) ==
    /\ Receive(r, "updateArtist", caller,
               ProfileBody(id, users[caller].role, extra[1], extra[2], extra[3]),
               "findArtist")
    /\ UNCHANGED <<products, client, users, artists, sessions>>

\* const artist = await Artist.findById(req.params.id) and the ownership check
UpdateFindArtist(r) ==
    /\ At(r, "updateArtist", "findArtist")
    /\ IF reqs[r].body.id \notin DOMAIN artists
         THEN Respond(r, 404, "Artist not found")
         ELSE IF artists[reqs[r].body.id].user # reqs[r].caller
                 /\ reqs[r].body.role # "admin"
                THEN Respond(r, 403, "Not authorized to update this profile")
                ELSE Goto(r, "update")
    /\ UNCHANGED <<products, client, users, artists, sessions, nreq>>

\* await Artist.findByIdAndUpdate(req.params.id, req.body, {...})
UpdateArtist(r) ==
    /\ At(r, "updateArtist", "update")
    /\ artists' = [artists EXCEPT
                      ![reqs[r].body.id] = updateFields(@, reqs[r].body)]
    /\ Respond(r, 200, "Artist profile updated successfully")
    /\ UNCHANGED <<products, client, users, sessions, nreq>>

ArtistStep(r) ==
    \/ CreateFindExisting(r)
    \/ CreateUpdateRole(r)
    \/ CreateArtist(r)
    \/ UpdateFindArtist(r)
    \/ UpdateArtist(r)

ArtistArrive(r) ==
    \/ \E c \in CallersAt(r), x \in ProfileExtras : StartCreateArtist(r, c, x)
    \/ \E c \in CallersAt(r), a \in DOMAIN artists \cup {UnknownArtist},
          x \in ProfileExtras : StartUpdateArtist(r, c, a, x)

\* Create and update artist requests, handled concurrently, over stores that
\* hold sessions and ratings.
ArtistNext == \E r \in Reqs : ArtistArrive(r) \/ ArtistStep(r) \/ Finish(r)

ArtistSpec == SeqInit /\ [][ArtistNext]_vars

\* ---------------------------------------------------------- getProductById
\* GET /api/products/:id is public: no caller.
Anyone == "anyone"

\* GET /api/products/:id arrives.
StartGetProduct(r, id) ==
    /\ Receive(r, "getProduct", Anyone, [id |-> id], "findProduct")
    /\ UNCHANGED <<users, artists, sessions, products, client>>

\* const product = await Product.findById(req.params.id).populate(...):
\* the document the handler holds carries the views read here.
ProductFind(r) ==
    /\ At(r, "getProduct", "findProduct")
    /\ IF reqs[r].body.id \notin DOMAIN products
         THEN Respond(r, 404, "Product not found")
         ELSE reqs' = [reqs EXCEPT ![r].pc = "save",
                                   ![r].local.views = products[reqs[r].body.id].views]
    /\ UNCHANGED <<users, artists, sessions, products, nreq, client>>

\* product.views += 1; await product.save(): the save sets views to the
\* value of the document, one more than the value read; then the 200, whose
\* body has no message.
ProductSave(r) ==
    /\ At(r, "getProduct", "save")
    /\ products' = [products EXCEPT
                       ![reqs[r].body.id].views = reqs[r].local.views + 1]
    /\ Respond(r, 200, "none")
    /\ UNCHANGED <<users, artists, sessions, nreq, client>>

ProductStep(r) == ProductFind(r) \/ ProductSave(r)

ProductIdsAt(r) == IF Admit(r) THEN ProductIds \cup {UnknownProduct} ELSE {}

ProductArrive(r) == \E id \in ProductIdsAt(r) : StartGetProduct(r, id)

\* Products being viewed while profiles are created and updated.
ProductNext ==
    \E r \in Reqs : \/ ProductArrive(r) \/ ProductStep(r)
                    \/ ArtistArrive(r) \/ ArtistStep(r) \/ Finish(r)

ProductSpec == Init /\ [][ProductNext]_vars

\* -------------------------------------------------------- storage failures
\* An await of a handler rejects (the store is unreachable, a write is
\* refused): the operation awaited has no effect and the handler's catch
\* block answers 500 'Server error'.
Running(r) == ~Idle(r) /\ ~Responded(r)

\* bookSession: catch (error) { res.status(500)... }
\* The rejected await is the one the handler is at (nothing is written) or,
\* after Session.create, the populated re-read (the session is stored).
BookFail(r) ==
    /\ NoneResponded /\ reqs[r].op = "book" /\ Running(r)
    /\ \/ UNCHANGED sessions
       \/ /\ reqs[r].pc = "create"
          /\ sessions' = Append(sessions,
                                NewSession(reqs[r].caller, bookFields(reqs[r].body)))
    /\ Respond(r, 500, "Server error")
    /\ UNCHANGED <<products, client, users, artists, nreq>>

\* updateSessionStatus: catch (error) { res.status(500)... }
\* The rejected await is the one the handler is at or, after session.save(),
\* the populated re-read (the status is stored).
StatusFail(r) ==
    /\ NoneResponded /\ reqs[r].op = "status" /\ Running(r)
    /\ \/ UNCHANGED sessions
       \/ /\ reqs[r].pc = "save"
          /\ sessions' = [sessions EXCEPT ![reqs[r].body.id].status = reqs[r].body.status]
    /\ Respond(r, 500, "Server error")
    /\ UNCHANGED <<products, client, users, artists, nreq>>

\* rateSession: catch (error) { res.status(500)... }; its last await is the
\* artist save, so the rejected await is always the one the handler is at.
RateFail(r) ==
    /\ NoneResponded /\ reqs[r].op = "rate" /\ Running(r)
    /\ Respond(r, 500, "Server error")
    /\ UNCHANGED <<products, client, users, artists, sessions, nreq>>

\* One request at a time, over a store whose operations may fail.
FaultNext ==
    \E r \in Reqs : \/ SeqArrive(r) \/ Step(r) \/ Finish(r)
                    \/ BookFail(r) \/ StatusFail(r) \/ RateFail(r)

FaultSpec == SeqInit /\ [][FaultNext]_vars

\* createArtist: catch (error) { res.status(500)... }
\* The rejected await is the one the handler is at (it writes nothing; at
\* "create" the role update before it has been stored) or, after
\* Artist.create, the populated re-read (the profile is stored).
CreateFail(r) ==
    /\ NoneResponded /\ reqs[r].op = "createArtist" /\ Running(r)
    /\ \/ UNCHANGED artists
       \/ /\ reqs[r].pc = "create"
          /\ artists' = [a \in DOMAIN artists \cup {NextArtistId} |->
                           IF a \in DOMAIN artists THEN artists[a]
                           ELSE createFields(reqs[r].caller, reqs[r].body)]
    /\ Respond(r, 500, "Server error")
    /\ UNCHANGED <<products, client, users, sessions, nreq>>

\* updateArtist: catch (error) { res.status(500)... }; its last await is the
\* update, so the rejected await is always the one the handler is at.
UpdateFail(r) ==
    /\ NoneResponded /\ reqs[r].op = "updateArtist" /\ Running(r)
    /\ Respond(r, 500, "Server error")
    /\ UNCHANGED <<products, client, users, artists, sessions, nreq>>

SeqArtistArrive(r) ==
    \/ \E c \in SeqCallersAt(r), x \in ProfileExtras : StartCreateArtist(r, c, x)
    \/ \E c \in SeqCallersAt(r), a \in DOMAIN artists \cup {UnknownArtist},
          x \in ProfileExtras : StartUpdateArtist(r, c, a, x)

\* Create and update artist requests, one at a time, over a store whose
\* operations may fail.
ArtistFaultNext ==
    \E r \in Reqs : \/ SeqArtistArrive(r) \/ ArtistStep(r) \/ Finish(r)
                    \/ CreateFail(r) \/ UpdateFail(r)

ArtistFaultSpec == SeqInit /\ [][ArtistFaultNext]_vars

\* ------------------------------------------------------------- AuthManager
MaxEvents == 3

\* The accounts of the page's user; a token is modelled by the account it
\* was issued to.
PageUsers == {"cust", "art1"}

\* constructor(): currentUser = null, token = localStorage.getItem('authToken');
\* init(): if (this.token) this.validateToken(), which runs up to its fetch.
AuthInit ==
    /\ ServerInit({EmptyStore})
    /\ retrier = NoRetry
    /\ \E t \in PageUsers \cup {Null} :
          /\ authToken = t
          /\ authManager = [currentUser |-> Null, token |-> t]
          /\ tasks = [NoTasks EXCEPT !.validateToken =
                         IF t = Null THEN @ ELSE [pc |-> "fetch", token |-> t]]
    /\ nevents = 0

\* localStorage.removeItem('authToken'); this.token = null;
\* this.currentUser = null
loggedOut ==
    /\ authToken' = Null
    /\ authManager' = [currentUser |-> Null, token |-> Null]

\* this.token = data.token; this.currentUser = data.user;
\* localStorage.setItem('authToken', this.token)
loggedIn(user) ==
    /\ authToken' = user
    /\ authManager' = [currentUser |-> user, token |-> user]

\* A click on .logout-btn, which the user menu shows while currentUser is
\* set: handleLogout() runs to its end, it has no await.
handleLogout ==
    /\ authManager.currentUser # Null
    /\ nevents < MaxEvents
    /\ nevents' = nevents + 1
    /\ loggedOut
    /\ UNCHANGED <<server, retrier, tasks>>

\* The login form is submitted: handleLogin runs up to its fetch; the submit
\* button stays disabled until the method ends.
handleLogin ==
    /\ tasks.handleLogin = "none"
    /\ nevents < MaxEvents
    /\ nevents' = nevents + 1
    /\ tasks' = [tasks EXCEPT !.handleLogin = "fetch"]
    /\ UNCHANGED <<server, retrier, authManager, authToken>>

\* await fetch('/api/auth/login', ...) settles: a response, or a network
\* error the catch block reports.
LoginFetched ==
    /\ tasks.handleLogin = "fetch"
    /\ \E next \in {"json", "none"} : tasks' = [tasks EXCEPT !.handleLogin = next]
    /\ UNCHANGED <<server, retrier, authManager, authToken, nevents>>

\* await response.json() settles: data.success with a token and a user, or a
\* refusal or an error, which change nothing.
LoginParsed ==
    /\ tasks.handleLogin = "json"
    /\ tasks' = [tasks EXCEPT !.handleLogin = "none"]
    /\ \/ \E user \in PageUsers : loggedIn(user)
       \/ UNCHANGED <<authManager, authToken>>
    /\ UNCHANGED <<server, retrier, nevents>>

\* The register form is submitted: handleRegister runs up to its fetch.
handleRegister ==
    /\ tasks.handleRegister = "none"
    /\ nevents < MaxEvents
    /\ nevents' = nevents + 1
    /\ tasks' = [tasks EXCEPT !.handleRegister = "fetch"]
    /\ UNCHANGED <<server, retrier, authManager, authToken>>

\* await fetch('/api/auth/register', ...) settles.
RegisterFetched ==
    /\ tasks.handleRegister = "fetch"
    /\ \E next \in {"json", "none"} : tasks' = [tasks EXCEPT !.handleRegister = next]
    /\ UNCHANGED <<server, retrier, authManager, authToken, nevents>>

\* await response.json() settles in handleRegister.
RegisterParsed ==
    /\ tasks.handleRegister = "json"
    /\ tasks' = [tasks EXCEPT !.handleRegister = "none"]
    /\ \/ \E user \in PageUsers : loggedIn(user)
       \/ UNCHANGED <<authManager, authToken>>
    /\ UNCHANGED <<server, retrier, nevents>>

\* await fetch('/api/auth/me', ...) settles in validateToken: response.ok,
\* or a response that is not ok or a network error, which call
\* handleLogout().
ValidateFetched ==
    /\ tasks.validateToken.pc = "fetch"
    /\ \/ /\ tasks' = [tasks EXCEPT !.validateToken.pc = "json"]
          /\ UNCHANGED <<authManager, authToken>>
       \/ /\ tasks' = [tasks EXCEPT !.validateToken = NoTasks.validateToken]
          /\ loggedOut
    /\ UNCHANGED <<server, retrier, nevents>>

\* await response.json() settles in validateToken: this.currentUser =
\* data.user, the account of the token sent; or an error, which calls
\* handleLogout().
ValidateParsed ==
    /\ tasks.validateToken.pc = "json"
    /\ tasks' = [tasks EXCEPT !.validateToken = NoTasks.validateToken]
    /\ \/ /\ authManager' = [authManager EXCEPT !.currentUser = tasks.validateToken.token]
          /\ UNCHANGED authToken
       \/ loggedOut
    /\ UNCHANGED <<server, retrier, nevents>>

AuthNext ==
    \/ handleLogout
    \/ handleLogin
    \/ LoginFetched
    \/ LoginParsed
    \/ handleRegister
    \/ RegisterFetched
    \/ RegisterParsed
    \/ ValidateFetched
    \/ ValidateParsed

AuthSpec == AuthInit /\ [][AuthNext]_vars

\* -------------------------------------------------------- apiHelpers.retry
MaxRetries == 3

\* The delays a call is given, in milliseconds.
Delays == {1, 1000}

\* What fn() resolves with and what it rejects with.
Values == {"v1", "v2"}
Errors == {"e1", "e2"}

\* retry(fn, retries, delay) has been called and is at its loop test: i = 0
\* and delay is the argument.  The call's arguments are kept in args, the
\* results of fn and the timers set in log.
RetryInit ==
    /\ ServerInit({EmptyStore})
    /\ PageIdle
    /\ \E n \in 0..MaxRetries, d \in Delays :
          retrier = [pc |-> "test", args |-> [retries |-> n, delay |-> d], i |-> 0,
                     delay |-> d, log |-> <<>>, outcome |-> <<"none">>]

\* for (...; i < retries; ...): the body calls fn() and awaits it; a loop that
\* ends returns undefined.
RetryTest ==
    /\ retrier.pc = "test"
    /\ IF retrier.i < retrier.args.retries
         THEN retrier' = [retrier EXCEPT !.pc = "fn"]
         ELSE retrier' = [retrier EXCEPT !.pc = "done",
                                         !.outcome = <<"return", "undefined">>]
    /\ UNCHANGED <<server, page>>

\* return await fn(): fn() resolves.
RetryFnResolves ==
    /\ retrier.pc = "fn"
    /\ \E v \in Values :
          retrier' = [retrier EXCEPT !.pc = "done",
                                     !.log = Append(@, <<"fn", v>>),
                                     !.outcome = <<"return", v>>]
    /\ UNCHANGED <<server, page>>

\* A catch block that waits the same delay before every attempt.
RetryFnRejectsLinear ==
    /\ retrier.pc = "fn"
    /\ \E e \in Errors :
          IF retrier.i = retrier.args.retries - 1
            THEN retrier' = [retrier EXCEPT !.pc = "done",
                                            !.log = Append(@, <<"fn", e>>),
                                            !.outcome = <<"throw", e>>]
            ELSE retrier' = [retrier EXCEPT
                                !.pc = "wait",
                                !.log = Append(Append(@, <<"fn", e>>),
                                               <<"wait", retrier.args.delay>>)]
    /\ UNCHANGED <<server, page>>

\* catch (error): fn() rejects; if (i === retries - 1) throw error; otherwise
\* setTimeout(resolve, delay) is set and awaited.
RetryFnRejects ==
    /\ retrier.pc = "fn"
    /\ \E e \in Errors :
          IF retrier.i = retrier.args.retries - 1
            THEN retrier' = [retrier EXCEPT !.pc = "done",
                                            !.log = Append(@, <<"fn", e>>),
                                            !.outcome = <<"throw", e>>]
            ELSE retrier' = [retrier EXCEPT
                                !.pc = "wait",
                                !.log = Append(Append(@, <<"fn", e>>),
                                               <<"wait", retrier.delay>>)]
    /\ UNCHANGED <<server, page>>

\* The timer fires: delay *= 2; i++
RetryTimer ==
    /\ retrier.pc = "wait"
    /\ retrier' = [retrier EXCEPT !.pc = "test", !.delay = @ * 2, !.i = @ + 1]
    /\ UNCHANGED <<server, page>>

RetryNext == RetryTest \/ RetryFnResolves \/ RetryFnRejects \/ RetryTimer

\* fn() settles and timers fire.
RetrySpec == RetryInit /\ [][RetryNext]_vars /\ WF_vars(RetryNext)

\* ================================================================== claims
Active(s) == s.status \in {"pending", "confirmed"}

\* [s.scheduledDate, s.scheduledDate + s.duration) meets [d, d + n).
Overlap(s, d, n) == s.scheduledDate < d + n /\ s.scheduledDate + s.duration > d

\* The active sessions of the artist that overlap the window r asks for.
Occupying(r) ==
    {i \in 1..Len(sessions) :
        /\ sessions[i].artist = reqs[r].body.artistId
        /\ Active(sessions[i])
        /\ Overlap(sessions[i], reqs[r].body.scheduledDate, reqs[r].body.duration)}

\* The handler of r takes the step that leaves `label`.
Leaves(r, label) == reqs[r].pc = label /\ reqs'[r].pc # label

StoreUnchanged == sessions' = sessions /\ artists' = artists

RatedSessions(a) ==
    {i \in 1..Len(sessions) : sessions[i].artist = a /\ sessions[i].rating # NoRating}

RECURSIVE ScoreSum(_)
ScoreSum(ids) ==
    IF ids = {} THEN 0
    ELSE LET i == CHOOSE x \in ids : TRUE IN sessions[i].rating + ScoreSum(ids \ {i})

\* average (in tenths) is a tenth nearest to the mean of the scores of a's
\* rated sessions, count is their number; 0 and 0 when there are none.
AggregateMatches(a) ==
    LET n == Cardinality(RatedSessions(a))
        d == 10 * ScoreSum(RatedSessions(a)) - artists[a].average * n
    IN /\ artists[a].count = n
       /\ IF n = 0 THEN artists[a].average = 0
          ELSE 2 * d <= n /\ -2 * d <= n

\* C1 (as claimed): a booking whose window overlaps an active session of the
\* same artist is rejected with 400 'Artist is not available at the requested
\* time' and creates no session.
C1_OverlapRejected ==
    [][\A r \in Reqs :
          (reqs[r].op = "book" /\ Leaves(r, "findExisting") /\ Occupying(r) # {})
          => /\ reqs'[r].res = Res(400, "Artist is not available at the requested time")
             /\ sessions' = sessions]_vars

\* C2 (as claimed): whenever no handler is running, every artist's
\* ratings.count is the number of its rated sessions and ratings.average their
\* mean rounded to one decimal (0 and 0 without ratings).
C2_AggregateMatchesRatings ==
    (\A r \in Reqs : ~Running(r)) => \A a \in DOMAIN artists : AggregateMatches(a)

\* C3 (as claimed): once no rateSession call is running, every artist's
\* aggregate reflects every rating written, whatever the interleaving of the
\* calls was.
C3_ConcurrentRatingsCounted ==
    (\A r \in Reqs : reqs[r].op = "rate" => ~Running(r))
    => \A a \in DOMAIN artists : AggregateMatches(a)

\* C4: a booking that has passed the availability check creates its pending
\* session and answers 201 even when an active session of the same artist
\* occupies its window by then.
C4_CreateAfterCheckNotRechecked ==
    [][\A r \in Reqs :
          (reqs[r].op = "book" /\ Leaves(r, "create") /\ Occupying(r) # {})
          => /\ Len(sessions') = Len(sessions) + 1
             /\ sessions'[Len(sessions')].status = "pending"
             /\ sessions'[Len(sessions')].artist = reqs[r].body.artistId
             /\ sessions'[Len(sessions')].scheduledDate = reqs[r].body.scheduledDate
             /\ reqs'[r].res.status = 201]_vars

\* Two requests were made on the empty store and both were booked: two
\* pending sessions of one artist at the same time.
C4_Witness ==
    /\ nreq = 2 /\ Len(sessions) = 2
    /\ sessions[1].artist = sessions[2].artist
    /\ sessions[1].scheduledDate = sessions[2].scheduledDate
    /\ sessions[1].status = "pending" /\ sessions[2].status = "pending"
    /\ \E r \in Reqs : Responded(r) /\ reqs[r].op = "book" /\ reqs[r].res.status = 201

\* C5: every session a booking adds has status pending, paymentStatus pending
\* and no rating, whatever the body carried.
C5_CreatedPendingUnrated ==
    [][Len(sessions') > Len(sessions)
          => /\ Len(sessions') = Len(sessions) + 1
             /\ sessions'[Len(sessions')].status = "pending"
             /\ sessions'[Len(sessions')].paymentStatus = "pending"
             /\ sessions'[Len(sessions')].rating = NoRating]_vars

\* A booking whose body carried status 'completed', paymentStatus 'paid' and a
\* rating has been answered 201 and its session is stored pending.
C5_Witness ==
    \E r \in Reqs :
        /\ Responded(r) /\ reqs[r].op = "book" /\ reqs[r].res.status = 201
        /\ reqs[r].body.status = "completed" /\ reqs[r].body.score = 5
        /\ Len(sessions) > 0
        /\ sessions[Len(sessions)].status = "pending"
        /\ sessions[Len(sessions)].user = reqs[r].caller

\* C6: a booking on an existing artist whose window overlaps no active session
\* of that artist passes the availability check, and the create that follows
\* adds exactly the requested session and answers 201.
C6_FreeWindowBooked ==
    [][\A r \in Reqs :
          /\ (reqs[r].op = "book" /\ Leaves(r, "findExisting") /\ Occupying(r) = {})
             => reqs'[r].pc = "create" /\ sessions' = sessions
          /\ (reqs[r].op = "book" /\ Leaves(r, "create"))
             => /\ sessions' = Append(sessions, sessions'[Len(sessions')])
                /\ sessions'[Len(sessions')].user = reqs[r].caller
                /\ sessions'[Len(sessions')].artist = reqs[r].body.artistId
                /\ sessions'[Len(sessions')].scheduledDate = reqs[r].body.scheduledDate
                /\ sessions'[Len(sessions')].duration = reqs[r].body.duration
                /\ reqs'[r].res = Res(201, "Session booked successfully")]_vars

\* A booking was answered 201 while another active session of the same artist
\* ends exactly where the new one starts, or starts exactly where it ends.
C6_Witness ==
    \E r \in Reqs, i \in 1..Len(sessions) :
        /\ Responded(r) /\ reqs[r].op = "book" /\ reqs[r].res.status = 201
        /\ i < Len(sessions)
        /\ sessions[i].artist = sessions[Len(sessions)].artist
        /\ Active(sessions[i])
        /\ sessions[Len(sessions)].scheduledDate = reqs[r].body.scheduledDate
        /\ sessions[i].scheduledDate = reqs[r].body.scheduledDate + reqs[r].body.duration

\* C7 (as claimed): a rating, once set, is never changed by a later
\* rateSession call.
C7_RatingSetOnce ==
    [][\A i \in 1..Len(sessions) :
          sessions[i].rating # NoRating => sessions'[i].rating = sessions[i].rating]_vars

\* C8: a rateSession call by the booking customer with a score in 1..5 on a
\* session that is not completed is answered 400 'Session must be completed
\* before rating' and writes no session and no artist.
C8_NotCompletedRejected ==
    [][\A r \in Reqs :
          (/\ reqs[r].op = "rate" /\ Leaves(r, "findSession")
           /\ reqs[r].body.score \in 1..5
           /\ reqs[r].body.id \in 1..Len(sessions)
           /\ sessions[reqs[r].body.id].user = reqs[r].caller
           /\ sessions[reqs[r].body.id].status # "completed")
          => /\ reqs'[r].pc = "responded"
             /\ reqs'[r].res = Res(400, "Session must be completed before rating")
             /\ StoreUnchanged]_vars

\* The booking customer rated their own pending session with a valid score
\* and got the 400; the session is still unrated.
C8_Witness ==
    \E r \in Reqs :
        /\ Responded(r) /\ reqs[r].op = "rate"
        /\ reqs[r].res.message = "Session must be completed before rating"
        /\ reqs[r].body.id \in 1..Len(sessions)
        /\ sessions[reqs[r].body.id].user = reqs[r].caller
        /\ sessions[reqs[r].body.id].status = "pending"
        /\ sessions[reqs[r].body.id].rating = NoRating

\* C9: a rateSession request with a score below 1 or above 5 is answered 400
\* 'Rating must be between 1 and 5' at once, for every caller and session id,
\* and changes no session and no artist.
C9_BadScoreRejected ==
    [][\A r \in Reqs :
          (/\ Idle(r) /\ reqs'[r].op = "rate"
           /\ (reqs'[r].body.score < 1 \/ reqs'[r].body.score > 5))
          => /\ reqs'[r].pc = "responded"
             /\ reqs'[r].res = Res(400, "Rating must be between 1 and 5")
             /\ StoreUnchanged]_vars

\* The booking customer rated their own completed session 6 and got the 400.
C9_Witness ==
    \E r \in Reqs :
        /\ Responded(r) /\ reqs[r].op = "rate"
        /\ reqs[r].res = Res(400, "Rating must be between 1 and 5")
        /\ reqs[r].body.score = 6
        /\ reqs[r].body.id \in 1..Len(sessions)
        /\ sessions[reqs[r].body.id].user = reqs[r].caller
        /\ sessions[reqs[r].body.id].status = "completed"

\* C10: a rateSession call with a score in 1..5 on a stored session by anyone
\* but its customer is answered 403 and writes nothing, whatever the status;
\* whoever writes a rating or is answered 200 is the session's customer.
C10_OnlyCustomerRates ==
    [][\A r \in Reqs :
          /\ (/\ reqs[r].op = "rate" /\ Leaves(r, "findSession")
              /\ reqs[r].body.score \in 1..5
              /\ reqs[r].body.id \in 1..Len(sessions)
              /\ sessions[reqs[r].body.id].user # reqs[r].caller)
             => /\ reqs'[r].pc = "responded"
                /\ reqs'[r].res = Res(403, "Not authorized to rate this session")
                /\ StoreUnchanged
          /\ (/\ reqs[r].op = "rate" /\ Running(r) /\ reqs'[r].pc # reqs[r].pc
              /\ (sessions' # sessions \/ artists' # artists \/ reqs'[r].res.status = 200))
             => sessions[reqs[r].body.id].user = reqs[r].caller]_vars

\* The artist who owns the profile of a completed session tried to rate it
\* and got the 403; the session is unrated.
C10_Witness ==
    \E r \in Reqs :
        /\ Responded(r) /\ reqs[r].op = "rate" /\ reqs[r].res.status = 403
        /\ reqs[r].body.id \in 1..Len(sessions)
        /\ artists[sessions[reqs[r].body.id].artist].user = reqs[r].caller
        /\ sessions[reqs[r].body.id].status = "completed"
        /\ sessions[reqs[r].body.id].rating = NoRating

\* The caller is the session's customer, the owner of its artist's profile,
\* or an admin.
MayUpdate(session, caller) ==
    \/ session.user = caller
    \/ artists[session.artist].user = caller
    \/ users[caller].role = "admin"

\* C11: an updateSessionStatus call with a valid status on a stored session by
\* a caller who is neither its customer, nor the owner of its artist's
\* profile, nor an admin is answered 403 and leaves the store unchanged; a
\* status call that writes a session or is answered 200 comes from one of them.
C11_StatusOnlyByParties ==
    [][\A r \in Reqs :
          /\ (/\ reqs[r].op = "status" /\ Leaves(r, "findArtist")
              /\ ~MayUpdate(sessions[reqs[r].body.id], reqs[r].caller))
             => /\ reqs'[r].res = Res(403, "Not authorized to update this session")
                /\ StoreUnchanged
          /\ (/\ reqs[r].op = "status" /\ Running(r) /\ reqs'[r].pc # reqs[r].pc
              /\ (sessions' # sessions \/ reqs'[r].res.status = 200))
             => MayUpdate(sessions[reqs[r].body.id], reqs[r].caller)]_vars

\* An identity that owns another artist's profile asked for 'cancelled' on a
\* pending session that is neither its own nor its profile's, and got the 403;
\* the session is still pending.
C11_Witness ==
    \E r \in Reqs :
        /\ Responded(r) /\ reqs[r].op = "status" /\ reqs[r].res.status = 403
        /\ reqs[r].body.status = "cancelled"
        /\ reqs[r].body.id \in 1..Len(sessions)
        /\ findOneByUser(reqs[r].caller) # {}
        /\ ~MayUpdate(sessions[reqs[r].body.id], reqs[r].caller)
        /\ sessions[reqs[r].body.id].status = "pending"

FiveStatuses == {"pending", "confirmed", "completed", "cancelled", "rescheduled"}

StatusesValid == \A i \in 1..Len(sessions) : sessions[i].status \in FiveStatuses

C14_SessionPartiesFixed ==
    [][/\ Len(sessions') >= Len(sessions)
       /\ \A i \in 1..Len(sessions) :
            /\ i <= Len(sessions')
            /\ sessions'[i].user = sessions[i].user
            /\ sessions'[i].artist = sessions[i].artist]_vars

\* A session whose rating and status were both written since it was stored
\* (rated by its customer, then moved out of completed by someone else) still
\* names the customer and the artist it was stored with.
C14_Witness ==
    \E r \in Reqs, i \in 1..Len(sessions) :
        /\ nreq = 2 /\ Len(sessions) = 2 /\ Responded(r)
        /\ reqs[r].op = "status" /\ reqs[r].res.status = 200 /\ reqs[r].body.id = i
        /\ reqs[r].caller # sessions[i].user
        /\ sessions[i].status # "completed" /\ sessions[i].rating # NoRating
        /\ sessions[i].user = "cust" /\ sessions[i].artist = "A1"

Failed(r) == Responded(r) /\ reqs[r].res.status >= 400

\* C16 (as claimed): with requests handled one at a time, a handler step that
\* answers with a failure writes nothing, and whenever a failure response has
\* been sent every artist's aggregate matches the ratings stored: no rating
\* is left written without being counted.
C16_NoPartialWrites ==
    /\ []((\E r \in Reqs : Failed(r)) => \A a \in DOMAIN artists : AggregateMatches(a))
    /\ [][\A r \in Reqs :
            (Running(r) /\ reqs'[r].pc = "responded" /\ reqs'[r].res.status >= 400)
            => StoreUnchanged]_vars

ArtistOps == {"createArtist", "updateArtist"}

\* C17 (as claimed): a step of a create or update artist handler leaves the
\* ratings of every stored profile as they were and stores a new profile with
\* average 0 and count 0, whatever the body carries.
C17_RatingsNotSettable ==
    [][\A r \in Reqs :
          (reqs[r].op \in ArtistOps /\ reqs'[r] # reqs[r])
          => \A a \in DOMAIN artists' :
                IF a \in DOMAIN artists
                  THEN /\ artists'[a].average = artists[a].average
                       /\ artists'[a].count = artists[a].count
                  ELSE artists'[a].average = 0 /\ artists'[a].count = 0]_vars

\* The profiles that name identity u as their owner, before and after a step.
ProfilesOf(u) == {a \in DOMAIN artists : artists[a].user = u}
ProfilesOfNext(u) == {a \in DOMAIN artists' : artists'[a].user = u}

\* C18 (as claimed): a step of a create-artist handler never gives an identity
\* a second profile, whatever the interleaving; a create request whose caller
\* has a profile is answered 400 'Artist profile already exists', and a
\* profile is only created for a caller that has none.
C18_OneProfilePerIdentity ==
    [][\A r \in Reqs :
          (reqs[r].op = "createArtist" /\ reqs'[r] # reqs[r])
          => /\ \A u \in Users :
                   Cardinality(ProfilesOfNext(u)) > 1
                   => ProfilesOfNext(u) = ProfilesOf(u)
             /\ (Leaves(r, "findExisting") /\ ProfilesOf(reqs[r].caller) # {})
                => /\ reqs'[r].res = Res(400, "Artist profile already exists")
                   /\ artists' = artists
             /\ artists' # artists => ProfilesOf(reqs[r].caller) = {}]_vars

StartingInWindow(r) ==
    {i \in 1..Len(sessions) :
        /\ sessions[i].artist = reqs[r].body.artistId
        /\ Active(sessions[i])
        /\ reqs[r].body.scheduledDate <= sessions[i].scheduledDate
        /\ sessions[i].scheduledDate < reqs[r].body.scheduledDate + reqs[r].body.duration}

Conflict == Res(400, "Artist is not available at the requested time")

\* C20: the availability check of a booking on a stored artist answers
\* Conflict exactly when a pending or confirmed session of that artist starts
\* inside the requested window; otherwise the booking goes on to create, and
\* Conflict is answered nowhere else.
C20_ConflictIffStartInWindow ==
    [][\A r \in Reqs :
          /\ (reqs[r].op = "book" /\ Leaves(r, "findExisting"))
             => IF StartingInWindow(r) # {}
                  THEN reqs'[r].res = Conflict /\ StoreUnchanged
                  ELSE reqs'[r].pc = "create" /\ StoreUnchanged
          /\ (Running(r) /\ reqs'[r].res = Conflict)
             => /\ reqs[r].op = "book" /\ reqs[r].pc = "findExisting"
                /\ StartingInWindow(r) # {}]_vars

\* A booking was answered Conflict because a pending session of the artist
\* starts after the requested start and before the requested end.
C20_Witness ==
    \E r \in Reqs :
        /\ Responded(r) /\ reqs[r].op = "book" /\ reqs[r].res = Conflict
        /\ StartingInWindow(r) = {1}
        /\ sessions[1].status = "pending"
        /\ reqs[r].body.scheduledDate < sessions[1].scheduledDate
        /\ Len(sessions) = 1

\* t is the mean sum / n in tenths, rounded to the nearest tenth, a half up.
HalfUpTenths(t, sum, n) == 2 * n * t <= 20 * sum + n /\ 20 * sum + n < 2 * n * (t + 1)

\* C21: the artist save of a rateSession call that ran without interleaving
\* leaves the session's artist with count = the number of its rated sessions
\* and average = their mean rounded half up to one decimal, and leaves every
\* other artist as it was.
C21_AggregateRoundedHalfUp ==
    [][\A r \in Reqs :
          (reqs[r].op = "rate" /\ Leaves(r, "saveArtist"))
          => LET a == sessions[reqs[r].body.id].artist
                 rated == RatedSessions(a)
             IN /\ reqs[r].body.id \in rated
                /\ reqs'[r].res = Res(200, "Session rated successfully")
                /\ sessions' = sessions
                /\ artists'[a].count = Cardinality(rated)
                /\ HalfUpTenths(artists'[a].average, ScoreSum(rated), Cardinality(rated))
                /\ \A b \in DOMAIN artists \ {a} : artists'[b] = artists[b]]_vars

\* A fourth rating, 5 after three ratings of 4, was just counted: the mean is
\* 4.25 and the stored average 4.3.
C21_Witness ==
    \E r \in Reqs :
        /\ Responded(r) /\ reqs[r].op = "rate" /\ reqs[r].res.status = 200
        /\ reqs[r].body.score = 5
        /\ Cardinality(RatedSessions("A1")) = 4
        /\ ScoreSum(RatedSessions("A1")) = 17
        /\ artists["A1"].average = 43 /\ artists["A1"].count = 4

\* C22: rating a session that already holds a rating overwrites it without
\* counting it twice: the stored score becomes the new one and the set of rated
\* sessions stays as it was; the artist save leaves count at the number of
\* rated sessions, which is the count before the call, and the average at the
\* half-up mean of the latest scores; a call repeating the stored score
\* changes neither the session nor the aggregate.
C22_RerateOverwrites ==
    [][\A r \in Reqs :
          LET id == reqs[r].body.id
              a == sessions[id].artist
          IN /\ (reqs[r].op = "rate" /\ Leaves(r, "saveSession")
                   /\ sessions[id].rating # NoRating)
                => /\ sessions'[id].rating = reqs[r].body.score
                   /\ \A i \in 1..Len(sessions) \ {id} : sessions'[i] = sessions[i]
                   /\ RatedSessions(a)' = RatedSessions(a)
                   /\ artists' = artists
                   /\ artists[a].count = Cardinality(RatedSessions(a))
                   /\ (sessions[id].rating = reqs[r].body.score => sessions' = sessions)
             /\ (reqs[r].op = "rate" /\ Leaves(r, "saveArtist")
                   /\ artists[a].count = Cardinality(RatedSessions(a)))
                => /\ artists'[a].count = artists[a].count
                   /\ HalfUpTenths(artists'[a].average, ScoreSum(RatedSessions(a)),
                                   Cardinality(RatedSessions(a)))
                   /\ (AggregateMatches(a) => artists' = artists)]_vars

\* The one rating of A1, a 4, was replaced by a 5: still one rating, average 5.0.
C22_Witness ==
    \E r \in Reqs :
        /\ Responded(r) /\ reqs[r].op = "rate" /\ reqs[r].res.status = 200
        /\ reqs[r].body.id = 1 /\ reqs[r].body.score = 5
        /\ Len(sessions) = 3 /\ sessions[2].artist = "A2"
        /\ sessions[1].rating = 5
        /\ artists["A1"] = [artists["A1"] EXCEPT !.average = 50, !.count = 1]

\* C23 (as claimed): with bookSession and updateSessionStatus calls handled
\* one at a time, no two active (pending or confirmed) sessions of one artist
\* have overlapping intervals [scheduledDate, scheduledDate + duration).
C23_NoActiveOverlap ==
    \A i, j \in 1..Len(sessions) :
        (/\ i # j
         /\ sessions[i].artist = sessions[j].artist
         /\ Active(sessions[i]) /\ Active(sessions[j]))
        => ~Overlap(sessions[i], sessions[j].scheduledDate, sessions[j].duration)

\* C24 (as claimed): every session that carries a rating has status completed.
C24_RatedIsCompleted ==
    \A i \in 1..Len(sessions) :
        sessions[i].rating # NoRating => sessions[i].status = "completed"

\* C25 (as claimed): every session a list-sessions response carries has the
\* caller as its customer or refers to an artist profile the caller owns.
C25_ListDisclosesOwnOnly ==
    \A r \in Reqs :
        (Responded(r) /\ reqs[r].op = "list" /\ reqs[r].res.status = 200)
        => \A i \in reqs[r].res.data :
              \/ sessions[i].user = reqs[r].caller
              \/ artists[sessions[i].artist].user = reqs[r].caller

\* C26 (as claimed): the profile a create-artist request answered 201 stores
\* is owned by the caller, whatever the body carries.
C26_CreatedProfileOwnedByCaller ==
    [][\A r \in Reqs :
          (/\ reqs[r].op = "createArtist" /\ Leaves(r, "create")
           /\ reqs'[r].res.status = 201)
          => \A a \in DOMAIN artists' \ DOMAIN artists :
                artists'[a].user = reqs[r].caller]_vars

\* C27 (as claimed): a create-artist request answered 400 or 500 leaves the
\* caller's role as it was when the request arrived.
C27_FailedCreateKeepsRole ==
    \A r \in Reqs :
        (/\ Responded(r) /\ reqs[r].op = "createArtist"
         /\ reqs[r].res.status \in {400, 500})
        => users[reqs[r].caller].role = reqs[r].body.role

\* C28 (as claimed): the save of every get-product-by-id request answered 200
\* leaves the product's views one more than they were.
C28_EachViewCounted ==
    [][\A r \in Reqs :
          (/\ reqs[r].op = "getProduct" /\ Leaves(r, "save")
           /\ reqs'[r].res.status = 200)
          => products'[reqs[r].body.id].views = products[reqs[r].body.id].views + 1]_vars

\* C29 (as claimed): whenever the AuthManager's currentUser is set, so is its
\* token.
C29_UserImpliesToken ==
    authManager.currentUser # Null => authManager.token # Null

\* The results of fn and the delays waited, in order.
FnResults == SelectSeq(retrier.log, LAMBDA x : x[1] = "fn")
Waits == SelectSeq(retrier.log, LAMBDA x : x[1] = "wait")
Invocations == Len(FnResults) + (IF retrier.pc = "fn" THEN 1 ELSE 0)

RetryBounded ==
    LET n == retrier.args.retries
        log == retrier.log
    IN /\ Invocations <= n
       \* attempts and waits alternate, and only a failure is followed by more
       /\ \A k \in 1..Len(log) : log[k][1] = (IF k % 2 = 1 THEN "fn" ELSE "wait")
       /\ \A k \in 1..(Len(FnResults) - 1) : FnResults[k][2] \in Errors
       \* the k-th wait is delay * 2^(k-1)
       /\ \A k \in 1..Len(Waits) : Waits[k][2] = retrier.args.delay * 2^(k - 1)
       /\ retrier.pc = "done"
          => /\ Len(log) % 2 = 1
             /\ LET last == FnResults[Len(FnResults)][2]
                IN IF last \in Values
                     THEN retrier.outcome = <<"return", last>>
                     ELSE /\ retrier.outcome = <<"throw", last>>
                          /\ Len(FnResults) = n
                          /\ Len(Waits) = n - 1

\* C30: a call retry(fn, retries, delay) with retries >= 1 invokes fn at most
\* retries times, returns the value of the first invocation that resolves,
\* throws the error of the last invocation after exactly retries rejections,
\* waits delay, 2*delay, 4*delay, ... between attempts and not after the
\* last, and ends.
C30_RetryBoundedBackoff ==
    /\ [](retrier.args.retries >= 1 => RetryBounded)
    /\ <>(retrier.pc = "done")

\* Three attempts, the third resolving after waits of 1000 and 2000 ms.
C30_Witness ==
    /\ retrier.pc = "done"
    /\ retrier.args = [retries |-> 3, delay |-> 1000]
    /\ retrier.log = <<<<"fn", "e1">>, <<"wait", 1000>>, <<"fn", "e2">>,
                       <<"wait", 2000>>, <<"fn", "v1">>>>
    /\ retrier.outcome = <<"return", "v1">>

=============================================================================
